---- MODULE Spec2Model ----
(***************************************************************************)
(* Model of backend/app.py: a Flask application with an in-memory user     *)
(* store, a fixed question bank, JWT-protected exam routes and a scoring   *)
(* loop.                                                                   *)
(*                                                                         *)
(* Three specifications share the variables:                               *)
(*   Spec       requests handled one after another (each handler is one    *)
(*              atomic action);                                            *)
(*   SpecConc   two worker threads of the threaded development server run  *)
(*              register() concurrently, interleaved between the           *)
(*              membership test (line 62) and the insert (line 65);        *)
(*   SpecScore  submit_exam() applied to every answer list up to           *)
(*              MaxAnswers entries, on behalf of a logged-in user.         *)
(*                                                                         *)
(* resp.body is the Python value the handler hands to jsonify().           *)
(***************************************************************************)
EXTENDS Integers, Sequences, FiniteSets, TLC

\* ---------------------------------------------------------------- bounds
\* The clock stops at MaxTime.
MaxTime == 1
\* Longest answer list POSTed to /api/submit under Spec.
MaxBodyLen == 1
\* Longest answer list scored under SpecScore (the bank has 5 questions, so
\* 6 entries let the score pass the total).
MaxAnswers == 6

\* ---------------------------------------------------------------- inputs
\* data.get(k) is None when the JSON object has no key k.
None == "<None>"
Usernames == {"alice", "bob"}
Passwords == {"p1", "p2"}
UsernameInputs == Usernames \cup {"", None}
PasswordInputs == Passwords \cup {"", None}
Workers == {"w1", "w2"}

\* Entries of a submitted answer list: right and wrong options (one differing
\* in case only), an id outside the bank, and entries lacking a field.
AnswerEntries ==
    { [id |-> 1, selected_option |-> "Paris"],
      [id |-> 1, selected_option |-> "paris"],
      [id |-> 2, selected_option |-> "Paris"],
      [id |-> 999, selected_option |-> "Paris"] }
    \cup { [id |-> 1] } \cup { [selected_option |-> "Paris"] }

AnswerLists(n) == UNION { [1..k -> AnswerEntries] : k \in 0..n }

\* Bodies POSTed to /api/submit under Spec: a right answer, an unknown id and
\* an entry lacking a field.
BodyEntries ==
    { [id |-> 1, selected_option |-> "Paris"],
      [id |-> 999, selected_option |-> "Paris"],
      [id |-> 1] }

BodyLists(n) == UNION { [1..k -> BodyEntries] : k \in 0..n }

\* ---------------------------------------------------------------- data
QuestionBank ==
    << [id |-> 1, question |-> "What is the capital of France?",
        options |-> <<"Berlin", "Madrid", "Paris", "Rome">>,
        correct_answer |-> "Paris"],
       [id |-> 2, question |-> "Which planet is known as the Red Planet?",
        options |-> <<"Earth", "Mars", "Jupiter", "Saturn">>,
        correct_answer |-> "Mars"],
       [id |-> 3, question |-> "What is the largest ocean on Earth?",
        options |-> <<"Atlantic Ocean", "Indian Ocean", "Arctic Ocean", "Pacific Ocean">>,
        correct_answer |-> "Pacific Ocean"],
       [id |-> 4, question |-> "Who wrote 'To Kill a Mockingbird'?",
        options |-> <<"Harper Lee", "Mark Twain", "Ernest Hemingway", "F. Scott Fitzgerald">>,
        correct_answer |-> "Harper Lee"],
       [id |-> 5, question |-> "What is the square root of 64?",
        options |-> <<"6", "7", "8", "9">>,
        correct_answer |-> "8"] >>

\* app.config["JWT_SECRET_KEY"]: drawn once per process; a token made without
\* it carries another key's signature.
JWT_SECRET_KEY == "process_key"
OtherKey == "other_key"

\* Lifetime of an access token in clock units (flask_jwt_extended's default
\* JWT_ACCESS_TOKEN_EXPIRES, 15 minutes, is one unit).
JWT_ACCESS_TOKEN_EXPIRES == 1

VARIABLES
    users,      \* dict username -> stored password
    questions,  \* the question bank
    now,        \* wall clock
    issued,     \* tokens returned by login so far
    req,        \* the request handled last (Spec, SpecScore)
    resp,       \* its response
    entered,    \* whether the view function's body ran for it
    regPw,      \* history: username -> password of the register call that got 201
    pc,         \* SpecConc: worker -> position in register()
    treq,       \* SpecConc: worker -> its request data
    tresp       \* SpecConc: worker -> its response

vars == <<users, questions, now, issued, req, resp, entered, regPw, pc, treq, tresp>>

\* ---------------------------------------------------------------- helpers
EmptyDict == [k \in {} |-> ""]

\* d[k] = v
DictSet(d, k, v) == [x \in (DOMAIN d) \cup {k} |-> IF x = k THEN v ELSE d[x]]

\* Python truthiness of a request field: None and "" are falsy.
Falsy(v) == v = None \/ v = ""

Response(status, body) == [status |-> status, body |-> body]
Msg(status, text) == Response(status, [msg |-> text])

NoReq == [op |-> "none"]
NoResp == Response(0, [msg |-> ""])

\* ---------------------------------------------------------------- register
\* register() without the test of line 62: an existing entry is replaced.
register_noCheck(us, data) ==
    LET username == data.username
        password == data.password
    IN  IF Falsy(username) \/ Falsy(password)
        THEN [resp |-> Msg(400, "Username and password are required"), users |-> us]
        ELSE [resp |-> Msg(201, "User registered successfully"),
              users |-> DictSet(us, username, password)]

\* register() storing before it tests: the 409 branch has already replaced
\* the stored password.
register_storeFirst(us, data) ==
    LET username == data.username
        password == data.password
    IN  IF Falsy(username) \/ Falsy(password)
        THEN [resp |-> Msg(400, "Username and password are required"), users |-> us]
        ELSE IF username \in DOMAIN us
        THEN [resp |-> Msg(409, "User already exists"),
              users |-> DictSet(us, username, password)]
        ELSE [resp |-> Msg(201, "User registered successfully"),
              users |-> DictSet(us, username, password)]

\* The whole handler: the response and the user store it leaves.
register(us, data) ==
    LET username == data.username
        password == data.password
    IN  IF Falsy(username) \/ Falsy(password)
        THEN [resp |-> Msg(400, "Username and password are required"), users |-> us]
        ELSE IF username \in DOMAIN us
        THEN [resp |-> Msg(409, "User already exists"), users |-> us]
        ELSE [resp |-> Msg(201, "User registered successfully"),
              users |-> DictSet(us, username, password)]

\* ---------------------------------------------------------------- tokens
create_access_token(identity, t) ==
    [kind |-> "jwt", sub |-> identity, exp |-> t + JWT_ACCESS_TOKEN_EXPIRES,
     key |-> JWT_SECRET_KEY]

NoHeader == [kind |-> "none"]
Garbage == [kind |-> "garbage"]
ForgedTokens == { [kind |-> "jwt", sub |-> u, exp |-> MaxTime + JWT_ACCESS_TOKEN_EXPIRES,
                   key |-> OtherKey] : u \in {"alice"} }

\* What a client can put in the Authorization header: nothing, a string that
\* is no JWT, a token a login returned, or a token signed with another key.
AuthInputs == {NoHeader, Garbage} \cup issued \cup ForgedTokens

\* @jwt_required(): the response that replaces the view's, or NoResp when the
\* request is let through.
jwt_required(auth, t) ==
    IF auth.kind = "none" THEN Msg(401, "Missing Authorization Header")
    ELSE IF auth.kind = "garbage" THEN Msg(422, "Not enough segments")
    ELSE IF auth.key # JWT_SECRET_KEY THEN Msg(422, "Signature verification failed")
    ELSE IF auth.exp <= t THEN Msg(401, "Token has expired")
    ELSE NoResp

\* ---------------------------------------------------------------- login
\* login() without the password comparison of line 78.
login_userOnly(us, data, t) ==
    LET username == data.username
        password == data.password
    IN  IF Falsy(username) \/ Falsy(password)
        THEN Msg(400, "Username and password are required")
        ELSE IF username \notin DOMAIN us
        THEN Msg(401, "Invalid username or password")
        ELSE Response(200, [access_token |-> create_access_token(username, t)])

login(us, data, t) ==
    LET username == data.username
        password == data.password
    IN  IF Falsy(username) \/ Falsy(password)
        THEN Msg(400, "Username and password are required")
        ELSE IF username \notin DOMAIN us \/ us[username] # password
        THEN Msg(401, "Invalid username or password")
        ELSE Response(200, [access_token |-> create_access_token(username, t)])

\* ---------------------------------------------------------------- questions
\* get_questions() returning the bank entries whole.
get_questions_whole(qs) == [i \in 1..Len(qs) |-> qs[i]]

\* The list comprehension of get_questions: id, question and options of each
\* bank entry, in bank order.
get_questions(qs) ==
    [i \in 1..Len(qs) |->
        [id |-> qs[i].id, question |-> qs[i].question, options |-> qs[i].options]]

\* {q["id"]: q for q in questions}: a later entry with the same id replaces an
\* earlier one.
QuestionMap(qs) ==
    [k \in {qs[i].id : i \in 1..Len(qs)} |->
        qs[CHOOSE i \in 1..Len(qs) :
              qs[i].id = k /\ \A j \in (i+1)..Len(qs) : qs[j].id # k]]

\* ---------------------------------------------------------------- scoring
\* The loop body counting a question once: a repeated id adds nothing.
LoopBody_dedup(question_map, acc, answer) ==
    IF "id" \notin DOMAIN answer \/ "selected_option" \notin DOMAIN answer
    THEN [acc EXCEPT !.raised = TRUE]
    ELSE LET q_id == answer.id
             user_option == answer.selected_option
         IN  IF q_id \in DOMAIN question_map
             THEN LET correct_option == question_map[q_id].correct_answer
                  IN  [raised |-> FALSE,
                       score |-> IF user_option = correct_option
                                    /\ q_id \notin DOMAIN acc.correct_answers
                                 THEN acc.score + 1 ELSE acc.score,
                       correct_answers |->
                           DictSet(acc.correct_answers, q_id, correct_option)]
             ELSE acc

\* The loop body recording the correct answer only inside the test of line
\* 114, that is only for a right option.
LoopBody_recordIfRight(question_map, acc, answer) ==
    IF "id" \notin DOMAIN answer \/ "selected_option" \notin DOMAIN answer
    THEN [acc EXCEPT !.raised = TRUE]
    ELSE LET q_id == answer.id
             user_option == answer.selected_option
         IN  IF q_id \in DOMAIN question_map
             THEN LET correct_option == question_map[q_id].correct_answer
                  IN  IF user_option = correct_option
                      THEN [raised |-> FALSE,
                            score |-> acc.score + 1,
                            correct_answers |->
                                DictSet(acc.correct_answers, q_id, correct_option)]
                      ELSE acc
             ELSE acc

\* One pass of the for loop's body over `answer`. acc.raised records the
\* KeyError of answer["id"] or answer["selected_option"].
LoopBody(question_map, acc, answer) ==
    IF "id" \notin DOMAIN answer \/ "selected_option" \notin DOMAIN answer
    THEN [acc EXCEPT !.raised = TRUE]
    ELSE LET q_id == answer.id
             user_option == answer.selected_option
         IN  IF q_id \in DOMAIN question_map
             THEN LET correct_option == question_map[q_id].correct_answer
                  IN  [raised |-> FALSE,
                       score |-> IF user_option = correct_option
                                 THEN acc.score + 1 ELSE acc.score,
                       correct_answers |->
                           DictSet(acc.correct_answers, q_id, correct_option)]
             ELSE acc

RECURSIVE ScoreLoop(_, _, _, _)
ScoreLoop(question_map, user_answers, i, acc) ==
    IF i > Len(user_answers) \/ acc.raised
    THEN acc
    ELSE ScoreLoop(question_map, user_answers, i + 1,
                   LoopBody(question_map, acc, user_answers[i]))

\* An exception that leaves the view function: Flask answers 500 with an HTML
\* page.
InternalServerError == Response(500, [html |-> "Internal Server Error"])

submit_exam(qs, user_answers) ==
    LET total == Len(qs)
        acc == ScoreLoop(QuestionMap(qs), user_answers, 1,
                         [raised |-> FALSE, score |-> 0, correct_answers |-> EmptyDict])
    IN  IF acc.raised
        THEN InternalServerError
        ELSE Response(200, [score |-> acc.score, total |-> total,
                            correct_answers |-> acc.correct_answers])

\* ---------------------------------------------------------------- Spec
Init ==
    /\ users = EmptyDict
    /\ questions = QuestionBank
    /\ now = 0
    /\ issued = {}
    /\ req = NoReq
    /\ resp = NoResp
    /\ entered = FALSE
    /\ regPw = EmptyDict
    /\ pc = [w \in Workers |-> "idle"]
    /\ treq = [w \in Workers |-> NoReq]
    /\ tresp = [w \in Workers |-> NoResp]

threadVars == <<pc, treq, tresp>>

\* POST /register
Register ==
    \E username \in UsernameInputs, password \in PasswordInputs :
        LET data == [username |-> username, password |-> password]
            r == register(users, data)
        IN  /\ req' = [op |-> "register", username |-> username, password |-> password]
            /\ resp' = r.resp
            /\ users' = r.users
            /\ entered' = TRUE
            /\ regPw' = IF r.resp.status = 201
                        THEN DictSet(regPw, username, password) ELSE regPw
            /\ UNCHANGED <<questions, now, issued, threadVars>>

\* POST /login
Login ==
    \E username \in UsernameInputs, password \in PasswordInputs :
        LET data == [username |-> username, password |-> password]
            r == login(users, data, now)
        IN  /\ req' = [op |-> "login", username |-> username, password |-> password]
            /\ resp' = r
            /\ entered' = TRUE
            /\ issued' = IF r.status = 200
                         THEN issued \cup {r.body.access_token} ELSE issued
            /\ UNCHANGED <<users, questions, now, regPw, threadVars>>

\* GET /api/questions
GetQuestions ==
    \E auth \in AuthInputs :
        LET gate == jwt_required(auth, now)
        IN  /\ req' = [op |-> "questions", auth |-> auth]
            /\ entered' = (gate = NoResp)
            /\ resp' = IF gate = NoResp
                       THEN Response(200, get_questions(questions)) ELSE gate
            /\ UNCHANGED <<users, questions, now, issued, regPw, threadVars>>

\* POST /api/submit
SubmitExam ==
    \E auth \in AuthInputs, user_answers \in BodyLists(MaxBodyLen) :
        LET gate == jwt_required(auth, now)
        IN  /\ req' = [op |-> "submit", auth |-> auth, body |-> user_answers]
            /\ entered' = (gate = NoResp)
            /\ resp' = IF gate = NoResp
                       THEN submit_exam(questions, user_answers) ELSE gate
            /\ UNCHANGED <<users, questions, now, issued, regPw, threadVars>>

\* Time passes between requests; the last response has been delivered.
Tick ==
    /\ now < MaxTime
    /\ now' = now + 1
    /\ req' = NoReq
    /\ resp' = NoResp
    /\ entered' = FALSE
    /\ UNCHANGED <<users, questions, issued, regPw, threadVars>>

Next == Register \/ Login \/ GetQuestions \/ SubmitExam \/ Tick

Spec == Init /\ [][Next]_vars

\* ---------------------------------------------------------------- SpecConc
\* register() run by the worker threads of app.run(): a thread switch can fall
\* between any two statements, so the test of line 62 and the store of line 65
\* are separate steps.

\* Lines 55-60: read the request; return 400 or go on to the membership test.
RegReceive(w) ==
    /\ pc[w] = "idle"
    /\ \E username \in UsernameInputs, password \in PasswordInputs :
          /\ treq' = [treq EXCEPT ![w] = [op |-> "register", username |-> username,
                                          password |-> password]]
          /\ IF Falsy(username) \/ Falsy(password)
             THEN /\ tresp' = [tresp EXCEPT
                                 ![w] = Msg(400, "Username and password are required")]
                  /\ pc' = pc
             ELSE /\ tresp' = [tresp EXCEPT ![w] = NoResp]
                  /\ pc' = [pc EXCEPT ![w] = "check"]
    /\ UNCHANGED <<users, questions, now, issued, req, resp, entered, regPw>>

\* Lines 62-63: the membership test.
RegCheck(w) ==
    /\ pc[w] = "check"
    /\ IF treq[w].username \in DOMAIN users
       THEN /\ tresp' = [tresp EXCEPT ![w] = Msg(409, "User already exists")]
            /\ pc' = [pc EXCEPT ![w] = "idle"]
       ELSE /\ tresp' = tresp
            /\ pc' = [pc EXCEPT ![w] = "insert"]
    /\ UNCHANGED <<users, questions, now, issued, req, resp, entered, regPw, treq>>

\* Lines 65-66: the store and the 201.
RegInsert(w) ==
    /\ pc[w] = "insert"
    /\ users' = DictSet(users, treq[w].username, treq[w].password)
    /\ tresp' = [tresp EXCEPT ![w] = Msg(201, "User registered successfully")]
    /\ pc' = [pc EXCEPT ![w] = "idle"]
    /\ UNCHANGED <<questions, now, issued, req, resp, entered, regPw, treq>>

NextConc == \E w \in Workers : RegReceive(w) \/ RegCheck(w) \/ RegInsert(w)

SpecConc == Init /\ [][NextConc]_vars

\* ---------------------------------------------------------------- SpecScore
\* alice has registered and logged in; her POST /api/submit, with any answer
\* list up to MaxAnswers entries, has arrived and is about to be handled.
AliceToken == create_access_token("alice", 0)

InitScore ==
    /\ users = DictSet(EmptyDict, "alice", "p1")
    /\ regPw = DictSet(EmptyDict, "alice", "p1")
    /\ questions = QuestionBank
    /\ now = 0
    /\ issued = {AliceToken}
    /\ \E user_answers \in AnswerLists(MaxAnswers) :
          req = [op |-> "submit", auth |-> AliceToken, body |-> user_answers]
    /\ resp = NoResp
    /\ entered = FALSE
    /\ pc = [w \in Workers |-> "idle"]
    /\ treq = [w \in Workers |-> NoReq]
    /\ tresp = [w \in Workers |-> NoResp]

HandleSubmit ==
    /\ req.op = "submit"
    /\ resp = NoResp
    /\ LET gate == jwt_required(req.auth, now)
       IN  /\ entered' = (gate = NoResp)
           /\ resp' = IF gate = NoResp
                      THEN submit_exam(questions, req.body) ELSE gate
    /\ UNCHANGED <<users, questions, now, issued, req, regPw, threadVars>>

NextScore == HandleSubmit

SpecScore == InitScore /\ [][NextScore]_vars

\* ================================================================ properties
BankIds == {QuestionBank[i].id : i \in 1..Len(QuestionBank)}
CorrectOf(id) == (CHOOSE q \in {QuestionBank[i] : i \in 1..Len(QuestionBank)} :
                      q.id = id).correct_answer
NonEmptyCredentials(r) == r.username \notin {"", None} /\ r.password \notin {"", None}
Scored == req.op = "submit" /\ resp.status = 200
WellFormed(answer) == {"id", "selected_option"} \subseteq DOMAIN answer

\* C1: of two concurrent POST /register requests for the same username, at
\* most one returns 201.
C1_AtMostOneRegistration ==
    \A w1, w2 \in Workers :
        (w1 # w2 /\ tresp[w1].status = 201 /\ tresp[w2].status = 201)
            => treq[w1].username # treq[w2].username

\* C2: handled one after another, a register call with non-empty username u
\* and password returns 201 when no earlier register call for u returned 201,
\* and 409 otherwise, whatever its password.
C2_RegisterOnceThenConflict ==
    [][ (req'.op = "register" /\ NonEmptyCredentials(req'))
           => IF req'.username \in DOMAIN regPw
              THEN resp'.status = 409
              ELSE resp'.status = 201 ]_vars

\* The same username registered a second time, with another password: 409.
C2_Witness ==
    /\ req.op = "register"
    /\ resp.status = 409
    /\ req.username \in DOMAIN regPw
    /\ regPw[req.username] # req.password

\* C3: a login with non-empty fields returns 200 with an access token exactly
\* when the username was registered with that password; otherwise the
\* response is the one 401 response, the same for an unknown username and for
\* a wrong password.
C3_LoginExactlyOnMatch ==
    (req.op = "login" /\ NonEmptyCredentials(req))
        => IF req.username \in DOMAIN regPw /\ regPw[req.username] = req.password
           THEN /\ resp.status = 200
                /\ DOMAIN resp.body = {"access_token"}
                /\ resp.body.access_token \in issued
           ELSE resp = Response(401, [msg |-> "Invalid username or password"])

\* A registered user exists, another name is unknown, and a login with the
\* registered name and a wrong password was refused.
C3_Witness ==
    /\ req.op = "login"
    /\ NonEmptyCredentials(req)
    /\ req.username \in DOMAIN regPw
    /\ regPw[req.username] # req.password
    /\ resp.status = 401
    /\ \E u \in Usernames : u \notin DOMAIN regPw

\* C4: an exam route returns 200 only for a token a login issued, lets every
\* issued token that has not expired through, and answers every request it
\* does not let through with 401.
C4_ExamRoutesGuarded ==
    req.op \in {"questions", "submit"}
        => /\ resp.status = 200 => req.auth \in issued
           /\ (req.auth \in issued /\ req.auth.exp > now) => entered
           /\ ~entered => resp.status = 401

\* C5: the value stored for a registered username is never the raw password
\* given at registration.
C5_NeverPlaintext ==
    \A u \in DOMAIN users : u \in DOMAIN regPw => users[u] # regPw[u]

\* C6: the returned score is the number of entries of the list whose id is in
\* the bank and whose selected_option equals that question's correct_answer.
C6_ScoreCountsMatches ==
    Scored =>
        resp.body.score =
            Cardinality({i \in 1..Len(req.body) :
                            /\ req.body[i].id \in BankIds
                            /\ req.body[i].selected_option = CorrectOf(req.body[i].id)})

\* One id answered correctly so often that the score passes the total.
C6_Witness ==
    /\ Scored
    /\ resp.body.score > resp.body.total

\* C7: the keys of correct_answers are the ids of the list that are in the
\* bank, each mapped to the question's correct_answer.
C7_CorrectAnswersKeys ==
    Scored =>
        /\ DOMAIN resp.body.correct_answers =
              {req.body[i].id : i \in 1..Len(req.body)} \cap BankIds
        /\ \A k \in DOMAIN resp.body.correct_answers :
              resp.body.correct_answers[k] = CorrectOf(k)

\* A list with a wrongly answered question and an unknown id.
C7_Witness ==
    /\ Scored
    /\ \E i \in 1..Len(req.body) : req.body[i].id = 999
    /\ \E i \in 1..Len(req.body) :
          req.body[i].id = 2 /\ req.body[i].selected_option # CorrectOf(2)
    /\ 2 \in DOMAIN resp.body.correct_answers
    /\ 999 \notin DOMAIN resp.body.correct_answers

\* C8: a submission with an entry lacking id or selected_option is answered
\* 400 with a msg body and no score.
C8_MissingFieldIs400 ==
    (req.op = "submit" /\ entered
        /\ \E i \in 1..Len(req.body) : ~WellFormed(req.body[i]))
        => /\ resp.status = 400
           /\ "msg" \in DOMAIN resp.body
           /\ "score" \notin DOMAIN resp.body

\* C9: the listing has one entry per bank question, in bank order, with id,
\* question and options only; the call changes neither the bank nor the user
\* store, and a call right after another returns the same listing.
C9_ListingShape ==
    (req.op = "questions" /\ resp.status = 200)
        => /\ Len(resp.body) = Len(QuestionBank)
           /\ \A i \in 1..Len(QuestionBank) :
                 /\ DOMAIN resp.body[i] = {"id", "question", "options"}
                 /\ resp.body[i].id = QuestionBank[i].id
                 /\ resp.body[i].question = QuestionBank[i].question
                 /\ resp.body[i].options = QuestionBank[i].options

C9_ListingStep ==
    req'.op = "questions"
        => /\ users' = users
           /\ questions' = questions
           /\ (req.op = "questions" /\ resp.status = 200 /\ resp'.status = 200)
                 => resp'.body = resp.body

\* C9: every listing has the shape above and every call to the route is such
\* a step.
C9_Listing == []C9_ListingShape /\ [][C9_ListingStep]_vars

C9_Witness ==
    /\ req.op = "questions"
    /\ resp.status = 200
    /\ users # EmptyDict

\* C10: a stored credential is never changed or removed; only a register
\* that returns 201 changes the user store; the bank never changes.
C10_Step ==
    /\ \A u \in DOMAIN users : u \in DOMAIN users' /\ users'[u] = users[u]
    /\ users' # users => (req'.op = "register" /\ resp'.status = 201)
    /\ questions' = questions

\* C10: every step keeps the stored credentials and the bank.
C10_CredentialsFrozen == [][C10_Step]_vars

\* A registered user, and a register call for that name refused with 409.
C10_Witness ==
    /\ req.op = "register"
    /\ resp.status = 409
    /\ req.username \in DOMAIN users
    /\ users[req.username] # req.password

====
